---- MODULE Spec2Model ----
(***************************************************************************)
(* State-machine model of the asynchronous pipeline of the company         *)
(* research agent: BaseResearcher.generate_queries (streamed query         *)
(* generation with retry, backoff and fallback), the two search paths      *)
(* BaseResearcher.search_documents / search_single_query, the section      *)
(* synthesizer Briefing.create_briefings and the report compiler           *)
(* Editor.compile_briefings.                                               *)
(*                                                                         *)
(* Strings are sequences of symbols.  A symbol is a one-character string   *)
(* ("a", " ", "\n") or an opaque word ("Acme", "overview") that contains    *)
(* no whitespace.                                                          *)
(***************************************************************************)
EXTENDS Integers, Sequences, FiniteSets, TLC

VARIABLES
    \* ---- the researcher object and the call's state dictionary
    analyst_type,          \* self.analyst_type
    websocket_manager,     \* state.get('websocket_manager'): "ws" or "none"
    job_id,                \* state.get('job_id'): "job" or "none"
    company,               \* state.get("company", "Unknown Company")
    current_year,          \* datetime.now().year
    last_status,           \* status tag of the last notification delivered
    \* ---- generate_queries
    gen_pc,                \* position of the coroutine
    attempt,               \* loop variable of "for attempt in range(max_retries)"
    queries,               \* local list "queries"
    current_query,         \* local buffer "current_query"
    current_query_number,  \* local counter "current_query_number"
    gen_result,            \* value returned to the caller
    gen_outcome,           \* "none", "queries", "fallback" or "raised"
    requests,              \* completion requests issued by this call
    failures,              \* attempts that ended in the except clause
    text,                  \* the tokens consumed from the current stream, joined
    overdue,               \* the running attempt has lasted longer than timeout
    slept,                 \* delays passed to asyncio.sleep, in order
    empty_stream,          \* the last stream ended with no query finalized
    discarded,             \* a failed attempt of the call had finalized a query
    \* ---- search_documents / search_single_query
    s_pc,                  \* position of the coroutine
    s_mode,                \* "batch" (search_documents) or "single"
    s_queries,             \* the queries argument (single: a one-element list)
    s_state,               \* per request: "pending", "done" or "raised"
    s_results,             \* per request: the provider's response
    s_requests,            \* provider requests issued, in order of issue
    s_last,                \* index of the request that completed most recently
    s_docs,                \* mapping returned to the caller
    s_outcome,             \* "none", "docs", "empty" or "raised"
    \* ---- the state dictionary shared by the briefing and editor nodes
    state_has,             \* keys of the state dictionary written so far
    state_slots,           \* state['<category>_briefing'], by key
    state_briefings,       \* state['briefings']
    \* ---- create_briefings / generate_category_briefing
    curated,               \* per category: state['curated_<field>'] is non-empty
    b_pc,                  \* position of create_briefings
    b_task,                \* per category: position of its process_briefing task
    b_running,             \* the task that owns the event loop, or "none"
    briefing_semaphore,    \* value of the asyncio.Semaphore
    briefings,             \* local dict "briefings"
    b_result,              \* per category: the content of its result
    b_fate,                \* per category: how its synthesis ended
    b_requests,            \* per category: generate_content calls issued
    b_writes,              \* writes of briefing slots, in order
    b_sent,                \* per category: the notifications delivered, in order
    \* ---- Editor.run / compile_briefings / edit_report
    references,            \* state.get('references') is non-empty
    e_pc,                  \* position of the coroutine
    individual_briefings,  \* the collected briefings, in collection order
    edited_report,         \* local "edited_report" of edit_report
    accumulated_text,      \* local "accumulated_text" of content_sweep
    buffer,                \* local "buffer" of content_sweep
    e_received,            \* chunks received from the cleanup stream
    final_report,          \* local "final_report" of edit_report
    e_requests,            \* completion requests issued, in order
    e_chunks,              \* the "report_chunk" payloads delivered, in order
    e_complete,            \* the "editor_complete" payloads delivered, in order
    e_log,                 \* the events of the compile, in order
    state_report,          \* state['report']
    editor_report,         \* state['editor']['report']
    e_outcome,             \* "none", "returned" or "raised"
    \* ---- generate_category_briefing: the documents of the prompt
    p_pc,                  \* position in the selection of documents
    doc_items,                 \* local "items": the documents as handed over
    sorted_items,          \* local "sorted_items"
    p_next,                \* index of the loop over sorted_items
    doc_texts,             \* local "doc_texts": the entries included
    total_length,          \* local "total_length"
    \* ---- two jobs running compile_briefings on one Editor
    self_context,          \* self.context of the Editor
    j_pc,                  \* per job: position of its compile_briefings
    j_running,             \* the job that owns the event loop, or "none"
    j_company,             \* per job: local "company" of edit_report
    j_compile,             \* per job: identity in its compile request
    j_cleanup,             \* per job: identity in its cleanup request
    j_complete             \* per job: company in its completion notification

rvars == <<analyst_type, websocket_manager, job_id, company, current_year>>
gvars == <<gen_pc, attempt, queries, current_query, current_query_number,
           gen_result, gen_outcome, requests, failures, text, overdue, slept,
           empty_stream, discarded>>
svars == <<s_pc, s_mode, s_queries, s_state, s_results, s_requests, s_last,
           s_docs, s_outcome>>
dvars == <<state_has, state_slots, state_briefings>>
bvars == <<curated, b_pc, b_task, b_running, briefing_semaphore, briefings,
           b_result, b_fate, b_requests, b_writes, b_sent>>
\* the state of the nodes downstream of the researcher
evars == <<references, e_pc, individual_briefings, edited_report,
           accumulated_text, buffer, e_received, final_report, e_requests,
           e_chunks, e_complete, e_log, state_report, editor_report,
           e_outcome>>
pvars == <<p_pc, doc_items, sorted_items, p_next, doc_texts, total_length>>
jvars == <<self_context, j_pc, j_running, j_company, j_compile, j_cleanup,
           j_complete>>
xvars == <<pvars, jvars>>
nvars == <<dvars, bvars, evars, xvars>>
vars == <<rvars, last_status, gvars, svars, nvars>>

----------------------------------------------------------------------------
(* Bounds of the model *)

\* longest token text enumerated exhaustively
MaxText == 4
\* longest token (delta.content) the provider sends in one chunk
MaxTokLen == 2
\* longest query list handed to search_documents
MaxQueries == 2

(* Program constants *)

max_retries == 3
retry_delay == 2
MaxReturned == 4
MinWords == 3

----------------------------------------------------------------------------
(* Strings *)

NL == "\n"
Whitespace == {" ", NL}

\* every sequence over S of length at most n
SeqUpTo(S, n) == UNION {[1..k -> S] : k \in 0..n}

Take(s, n) == SubSeq(s, 1, IF n < Len(s) THEN n ELSE Len(s))

IsPrefix(p, s) == Len(p) <= Len(s) /\ SubSeq(s, 1, Len(p)) = p

Prefixes(S) == UNION {{SubSeq(s, 1, k) : k \in 0..Len(s)} : s \in S}

Contains(s, c) == \E i \in 1..Len(s) : s[i] = c

\* str.split('\n'): the parts between the newlines, always at least one part
RECURSIVE SplitLines(_)
SplitLines(s) ==
    IF ~Contains(s, NL) THEN <<s>>
    ELSE LET i == CHOOSE j \in 1..Len(s) :
                     s[j] = NL /\ \A k \in 1..(j - 1) : s[k] # NL
         IN  <<SubSeq(s, 1, i - 1)>> \o SplitLines(SubSeq(s, i + 1, Len(s)))

RECURSIVE LStrip(_)
LStrip(s) == IF s # <<>> /\ Head(s) \in Whitespace THEN LStrip(Tail(s)) ELSE s

RECURSIVE RStrip(_)
RStrip(s) ==
    IF s # <<>> /\ s[Len(s)] \in Whitespace
    THEN RStrip(SubSeq(s, 1, Len(s) - 1)) ELSE s

\* str.strip()
Strip(s) == RStrip(LStrip(s))

\* len(str.split()): the number of maximal runs of non-whitespace symbols
WordCount(s) ==
    Cardinality({i \in 1..Len(s) :
        s[i] \notin Whitespace /\ (i = 1 \/ s[i - 1] \in Whitespace)})

----------------------------------------------------------------------------
(* The researcher and the inputs of a call *)

\* the role tags that base.py compares self.analyst_type with, and its default
AnalystTypes ==
    {"base_researcher", "company_analyzer", "financial_analyzer",
     "industry_analyzer", "news_analyzer", "news_analyst", "financial_analyst"}

\* company (given, or the default "Unknown Company") and current year of a call
CallContexts ==
    { [company |-> <<"Acme">>, year |-> 2026],
      [company |-> <<"Unknown", " ", "Company">>, year |-> 2027] }

\* the broadcaster handle and the job id of a call: both, one, or none
Broadcasters ==
    { [ws |-> "none", job |-> "none"],
      [ws |-> "ws", job |-> "none"],
      [ws |-> "ws", job |-> "job"] }

\* "if websocket_manager and job_id": a notification is attempted
Notifying == websocket_manager # "none" /\ job_id # "none"

\* what one awaited send_status_update can do: TRUE returns, FALSE raises
SendOutcomes == IF Notifying THEN {TRUE, FALSE} ELSE {TRUE}

\* the status tag left by a send that was attempted and returned
Sent(tag) == IF Notifying THEN tag ELSE last_status

\* f"{company} w1 w2 ..." and f"{company} w1 w2 ... {year}"
RECURSIVE Words(_)
Words(ws) == IF ws = <<>> THEN <<>> ELSE <<" ", Head(ws)>> \o Words(Tail(ws))

Fmt(c, ws) == c \o Words(ws)

FmtY(c, ws, y) == c \o Words(ws) \o <<" ", ToString(y)>>

\* the category branch _fallback_queries takes for a role tag
FallbackCategory(t) ==
    CASE t = "company_analyzer"   -> "company"
      [] t = "financial_analyzer" -> "financial"
      [] t = "industry_analyzer"  -> "industry"
      [] t = "news_analyzer"      -> "news"
      [] OTHER                    -> "default"

_fallback_queries(t, c, y) ==
    CASE FallbackCategory(t) = "company" ->
           << FmtY(c, <<"company", "overview">>, y),
              Fmt(c, <<"business", "model">>),
              Fmt(c, <<"products", "and", "services">>),
              Fmt(c, <<"leadership", "team">>) >>
      [] FallbackCategory(t) = "financial" ->
           << FmtY(c, <<"financial", "performance">>, y),
              FmtY(c, <<"revenue">>, y),
              FmtY(c, <<"financial", "reports">>, y),
              Fmt(c, <<"profit", "margin">>) >>
      [] FallbackCategory(t) = "industry" ->
           << FmtY(c, <<"industry", "position">>, y),
              Fmt(c, <<"market", "share">>),
              Fmt(c, <<"competitors", "analysis">>),
              FmtY(c, <<"industry", "trends">>, y) >>
      [] FallbackCategory(t) = "news" ->
           << FmtY(c, <<"latest", "news">>, y),
              Fmt(c, <<"recent", "developments">>),
              FmtY(c, <<"press", "releases">>, y),
              Fmt(c, <<"recent", "announcements">>) >>
      [] OTHER ->
           << FmtY(c, <<"overview">>, y),
              FmtY(c, <<"recent", "news">>, y),
              FmtY(c, <<"financial", "reports">>, y),
              FmtY(c, <<"industry", "analysis">>, y) >>

----------------------------------------------------------------------------
(* The completion provider's token streams *)

Alphabet == {"a", " ", NL}

\* streams longer than MaxText: three lines, five and six lines (more than
\* MaxReturned queries), padded and blank lines, a trailing newline
LongTexts ==
    { <<"a", NL, "b", NL, "c">>,
      <<"a", NL, "b", NL, "c", NL, "d", NL, "e">>,
      <<"a", NL, "b", NL, "c", NL, "d", NL, "e", NL, "f", NL>>,
      <<" ", "a", " ", "b", " ", NL, NL, " ", NL, "c", " ", "d", " ", "e">> }

\* every text a stream can have delivered so far
StreamTexts == SeqUpTo(Alphabet, MaxText) \cup Prefixes(LongTexts)

\* the tokens the provider can send after the text t
NextTokens(t) ==
    {SubSeq(u, Len(t) + 1, Len(u)) :
        u \in {v \in StreamTexts :
                 IsPrefix(t, v) /\ Len(v) - Len(t) <= MaxTokLen}}

----------------------------------------------------------------------------
(* BaseResearcher.generate_queries *)

NonEmpty(q) == q # <<>>

\* "for query in parts[:-1]: query = query.strip(); if query: ..."
Finalized(parts) ==
    IF Len(parts) <= 1 THEN <<>>
    ELSE SelectSeq([i \in 1..(Len(parts) - 1) |-> Strip(parts[i])], NonEmpty)

\* the buffer is emptied instead of keeping the unfinished line
RemainderDropped(parts) == <<>>

\* "current_query = parts[-1]"
Remainder(parts) == parts[Len(parts)]

\* "queries = queries[:4]"
Truncate(qs) == Take(qs, MaxReturned)

\* one retry too many
CanRetryOnceMore(a) == a < max_retries

\* "if attempt < max_retries - 1"
CanRetry(a) == a < max_retries - 1

\* the same delay after every failed attempt
RetryTimeFlat(a) == retry_delay

\* "retry_time = retry_delay * (2 ** attempt)"
RetryTime(a) == retry_delay * (2 ^ a)

\* an exception reaches "except (asyncio.TimeoutError, Exception)"
AttemptFails ==
    /\ gen_pc' = "failed"
    /\ failures' = failures + 1
    /\ text' = <<>>
    /\ overdue' = FALSE

CallGenerateQueries ==
    /\ gen_pc = "idle"
    /\ s_pc = "idle"
    /\ gen_pc' = "requesting"
    /\ attempt' = 0
    /\ requests' = 1
    /\ UNCHANGED <<queries, current_query, current_query_number, gen_result,
                   gen_outcome, failures, text, overdue, slept>>
    /\ UNCHANGED <<rvars, last_status, svars, nvars>>
    /\ UNCHANGED <<empty_stream, discarded>>

\* the awaited create() returns the stream; the list of the attempt before
\* is kept
RequestReturnsKeepingQueries ==
    /\ gen_pc = "requesting"
    /\ gen_pc' = "streaming"
    /\ current_query' = <<>>
    /\ current_query_number' = 1
    /\ text' = <<>>
    /\ UNCHANGED <<attempt, queries, gen_result, gen_outcome, requests, failures,
                   overdue, slept>>
    /\ UNCHANGED <<rvars, last_status, svars, nvars>>
    /\ UNCHANGED <<empty_stream, discarded>>

\* the awaited create() returns the stream; the locals are initialised
RequestReturns ==
    /\ gen_pc = "requesting"
    /\ gen_pc' = "streaming"
    /\ queries' = <<>>
    /\ current_query' = <<>>
    /\ current_query_number' = 1
    /\ text' = <<>>
    /\ UNCHANGED <<attempt, gen_result, gen_outcome, requests, failures,
                   overdue, slept>>
    /\ UNCHANGED <<rvars, last_status, svars, nvars>>
    /\ UNCHANGED <<empty_stream, discarded>>

RequestRaises ==
    /\ gen_pc = "requesting"
    /\ AttemptFails
    /\ UNCHANGED <<attempt, queries, current_query, current_query_number,
                   gen_result, gen_outcome, requests, slept>>
    /\ UNCHANGED <<rvars, last_status, svars, nvars>>
    /\ UNCHANGED <<empty_stream, discarded>>

\* the attempt's clock passes timeout.  asyncio.wait_for wraps the awaited
\* create() only: it raises TimeoutError while the request is awaited and is
\* gone once the stream is being consumed
TimeoutElapses ==
    /\ gen_pc \in {"requesting", "streaming"}
    /\ ~overdue
    /\ IF gen_pc = "requesting"
       THEN AttemptFails
       ELSE overdue' = TRUE /\ UNCHANGED <<gen_pc, failures, text>>
    /\ UNCHANGED <<attempt, queries, current_query, current_query_number,
                   gen_result, gen_outcome, requests, slept>>
    /\ UNCHANGED <<rvars, last_status, svars, nvars>>
    /\ UNCHANGED <<empty_stream, discarded>>

\* one iteration of "async for chunk in response" with delta.content = tok.
\* k = -1: no notification raises; k = 0: the "query_generating" notification
\* raises; k >= 1: the notification of the k-th query finalized by this chunk
\* raises, after that query was appended
ReceiveChunk ==
    /\ gen_pc = "streaming"
    /\ \E tok \in NextTokens(text) :
         LET cq    == current_query \o tok
             parts == SplitLines(cq)
             new   == Finalized(parts)
         IN  IF tok = <<>>
             THEN UNCHANGED <<gen_pc, queries, current_query,
                              current_query_number, failures, text, overdue,
                              last_status>>
             ELSE \E k \in {-1} \cup (IF Notifying THEN 0..Len(new) ELSE {}) :
                    /\ current_query' =
                         IF Contains(cq, NL) /\ k # 0 THEN Remainder(parts) ELSE cq
                    /\ queries' =
                         IF k = -1 THEN queries \o new ELSE queries \o Take(new, k)
                    /\ current_query_number' =
                         current_query_number +
                            (IF k = -1 THEN Len(new) ELSE IF k = 0 THEN 0 ELSE k - 1)
                    /\ last_status' =
                         IF k = 0 THEN last_status
                         ELSE IF k = 1 \/ new = <<>> THEN Sent("query_generating")
                         ELSE Sent("query_generated")
                    /\ IF k = -1
                       THEN /\ text' = text \o tok
                            /\ UNCHANGED <<gen_pc, failures, overdue>>
                       ELSE AttemptFails
    /\ UNCHANGED <<attempt, gen_result, gen_outcome, requests, slept>>
    /\ UNCHANGED <<rvars, svars, nvars>>
    /\ discarded' = (discarded \/ (gen_pc' = "failed" /\ queries' # <<>>))
    /\ UNCHANGED empty_stream

\* the stream raises while it is consumed
StreamRaises ==
    /\ gen_pc = "streaming"
    /\ AttemptFails
    /\ UNCHANGED <<attempt, queries, current_query, current_query_number,
                   gen_result, gen_outcome, requests, slept>>
    /\ UNCHANGED <<rvars, last_status, svars, nvars>>
    /\ discarded' = (discarded \/ queries # <<>>)
    /\ UNCHANGED empty_stream

\* the stream ends (exhausted, or finish_reason "stop"): the trailing buffer is
\* finalized, an empty list raises ValueError, otherwise the list is truncated
\* and returned
StreamEnds ==
    /\ gen_pc = "streaming"
    /\ LET last == Strip(current_query)
           qs   == IF last # <<>> THEN Append(queries, last) ELSE queries
       IN  \E ok \in (IF last # <<>> THEN SendOutcomes ELSE {TRUE}) :
             /\ last_status' =
                  IF last # <<>> /\ ok THEN Sent("query_generated") ELSE last_status
             /\ current_query_number' =
                  IF last # <<>> /\ ok THEN current_query_number + 1
                  ELSE current_query_number
             /\ IF ~ok \/ qs = <<>>
                THEN /\ AttemptFails
                     /\ queries' = qs
                     /\ empty_stream' = (qs = <<>>)
                     /\ discarded' = (discarded \/ qs # <<>>)
                     /\ UNCHANGED <<gen_result, gen_outcome>>
                ELSE /\ gen_pc' = "returned"
                     /\ queries' = Truncate(qs)
                     /\ gen_result' = Truncate(qs)
                     /\ gen_outcome' = "queries"
                     /\ UNCHANGED <<failures, text, overdue, empty_stream, discarded>>
    /\ UNCHANGED <<attempt, current_query, requests, slept>>
    /\ UNCHANGED <<rvars, svars, nvars>>

\* the except clause of the attempt: back off and retry, or after the last
\* attempt notify ("warning"; if that raises, the outer except clause notifies
\* "error") and return the fallback list
HandleFailure ==
    /\ gen_pc = "failed"
    /\ IF CanRetry(attempt)
       THEN /\ gen_pc' = "sleeping"
            /\ slept' = Append(slept, RetryTime(attempt))
            /\ UNCHANGED <<gen_result, gen_outcome, last_status>>
       ELSE /\ UNCHANGED slept
            /\ \E warned \in SendOutcomes, errored \in SendOutcomes :
                 IF warned \/ errored
                 THEN /\ gen_pc' = "returned"
                      /\ gen_result' =
                           _fallback_queries(analyst_type, company, current_year)
                      /\ gen_outcome' = "fallback"
                      /\ last_status' =
                           IF warned THEN Sent("warning") ELSE Sent("error")
                 ELSE /\ gen_pc' = "raised"
                      /\ gen_outcome' = "raised"
                      /\ UNCHANGED <<gen_result, last_status>>
    /\ UNCHANGED <<attempt, queries, current_query, current_query_number,
                   requests, failures, text, overdue>>
    /\ UNCHANGED <<rvars, svars, nvars>>
    /\ UNCHANGED <<empty_stream, discarded>>

\* asyncio.sleep returns; "continue" starts the next attempt and its request
SleepReturns ==
    /\ gen_pc = "sleeping"
    /\ gen_pc' = "requesting"
    /\ attempt' = attempt + 1
    /\ requests' = requests + 1
    /\ empty_stream' = FALSE
    /\ UNCHANGED discarded
    /\ UNCHANGED <<queries, current_query, current_query_number, gen_result,
                   gen_outcome, failures, text, overdue, slept>>
    /\ UNCHANGED <<rvars, last_status, svars, nvars>>

NextGen ==
    \/ CallGenerateQueries
    \/ RequestReturns
    \/ RequestRaises
    \/ TimeoutElapses
    \/ ReceiveChunk
    \/ StreamRaises
    \/ StreamEnds
    \/ HandleFailure
    \/ SleepReturns

----------------------------------------------------------------------------
(* The search provider *)

\* "if self.analyst_type == 'news_analyst': topic news; elif
\* 'financial_analyst': topic finance"; "none": no topic parameter
SearchTopic(t) ==
    CASE t = "news_analyst"      -> "news"
      [] t = "financial_analyst" -> "finance"
      [] OTHER                   -> "none"

\* the queries a caller passes: one, two and three words, irregular spacing
QueryPool ==
    { <<"a">>,
      <<"a", " ", "b">>,
      <<"a", " ", "b", " ", "c">>,
      <<"c", " ", " ", "b", " ", "a">> }

\* hits the provider can return; "" stands for a missing or empty field
HitA == [url |-> "u1", content |-> "c1", title |-> "T", score |-> 1]
HitB == [url |-> "u1", content |-> "c2", title |-> "U1", score |-> 2]
HitC == [url |-> "u2", content |-> "c3", title |-> " T ", score |-> 0]
HitNoUrl == [url |-> "", content |-> "c4", title |-> "T", score |-> 1]
HitNoContent == [url |-> "u2", content |-> "", title |-> "", score |-> 1]

\* the "results" list of a response
ResponsePool ==
    { <<>>, <<HitA>>, <<HitB>>, <<HitC>>, <<HitNoContent, HitNoUrl>>,
      <<HitB, HitNoUrl, HitNoContent, HitA>> }

\* utils.references.clean_title: trims the title
clean_title(t) ==
    CASE t = " T " -> "T"
      [] OTHER     -> t

\* str.lower() over the titles and urls of the pool
Lower(x) ==
    CASE x = "U1" -> "u1"
      [] x = "T"  -> "t"
      [] OTHER    -> x

\* "if title: title = clean_title(title); if title.lower() == url.lower() or
\* not title.strip(): title = ''"
NormalTitle(title, url) ==
    IF title = "" THEN ""
    ELSE LET c == clean_title(title)
         IN  IF Lower(c) = Lower(url) \/ c = "" THEN "" ELSE c

\* only the url is tested
SkipHitWithoutUrl(item) == item.url = ""

\* "if not item.get('content') or not item.get('url'): continue"
SkipHit(item) == item.content = "" \/ item.url = ""

\* the document stored for a hit
MakeDoc(item, query) ==
    [title   |-> NormalTitle(item.title, item.url),
     content |-> item.content,
     query   |-> query,
     url     |-> item.url,
     source  |-> "web_search",
     score   |-> item.score]

\* a dict is a function on its set of keys
EmptyDict == <<>>

\* "merged_docs[url] = {...}"
Put(d, k, v) == [x \in (DOMAIN d) \cup {k} |-> IF x = k THEN v ELSE d[x]]

\* "for item in result.get('results', [])" over one response
RECURSIVE AddItems(_, _, _)
AddItems(d, query, items) ==
    IF items = <<>> THEN d
    ELSE LET item == Head(items)
         IN  AddItems(IF SkipHit(item) THEN d
                      ELSE Put(d, item.url, MakeDoc(item, query)),
                      query, Tail(items))

\* the responses are merged as they complete: the last completed one last
MergeOrderAsCompleted(n, last) ==
    SelectSeq([i \in 1..n |-> i], LAMBDA i : i # last) \o <<last>>

\* the order in which the responses are merged: asyncio.gather returns them
\* in the order of the queries, whichever request completed last
MergeOrder(n, last) == [i \in 1..n |-> i]

\* "for query, result in zip(queries, results)" along an order of indices
RECURSIVE MergeAlong(_, _, _, _)
MergeAlong(d, order, qs, rs) ==
    IF order = <<>> THEN d
    ELSE MergeAlong(AddItems(d, qs[Head(order)], rs[Head(order)]),
                    Tail(order), qs, rs)

\* the responses that did arrive are merged and returned
BatchOnErrorPartial(qs, rs, st) ==
    MergeAlong(EmptyDict, SelectSeq([i \in 1..Len(qs) |-> i],
                                    LAMBDA i : st[i] = "done"), qs, rs)

\* "except Exception: return {}" around the gather
BatchOnError(qs, rs, st) == EmptyDict

----------------------------------------------------------------------------
(* BaseResearcher.search_documents *)

CallSearchDocuments ==
    /\ s_pc = "idle"
    /\ gen_pc = "idle"
    /\ \E qs \in SeqUpTo(QueryPool \ {<<"a">>}, MaxQueries) :
         /\ s_mode' = "batch"
         /\ s_queries' = qs
         /\ IF qs = <<>>
            THEN /\ s_pc' = "returned"
                 /\ s_outcome' = "empty"
                 /\ UNCHANGED <<s_state, s_results, s_requests, last_status>>
            ELSE \E generated \in SendOutcomes, started \in SendOutcomes :
                   IF generated /\ started
                   THEN /\ s_pc' = "gathering"
                        /\ s_requests' =
                             [i \in 1..Len(qs) |->
                                [query |-> qs[i],
                                 topic |-> SearchTopic(analyst_type)]]
                        /\ s_state' = [i \in 1..Len(qs) |-> "pending"]
                        /\ s_results' = [i \in 1..Len(qs) |-> <<>>]
                        /\ last_status' = Sent("search_started")
                        /\ UNCHANGED s_outcome
                   ELSE /\ s_pc' = "raised"
                        /\ s_outcome' = "raised"
                        /\ last_status' =
                             IF generated THEN Sent("queries_generated")
                             ELSE last_status
                        /\ UNCHANGED <<s_state, s_results, s_requests>>
    /\ UNCHANGED <<s_docs, s_last>>
    /\ UNCHANGED <<rvars, gvars, nvars>>

\* one of the gathered requests returns its response
ProviderResponds ==
    /\ s_pc = "gathering"
    /\ \E i \in 1..Len(s_queries), r \in ResponsePool :
         /\ s_state[i] = "pending"
         /\ s_state' = [s_state EXCEPT ![i] = "done"]
         /\ s_results' = [s_results EXCEPT ![i] = r]
         /\ s_last' = i
    /\ UNCHANGED <<s_pc, s_mode, s_queries, s_requests, s_docs, s_outcome>>
    /\ UNCHANGED <<rvars, last_status, gvars, nvars>>

\* one of the gathered requests raises: the gather raises at once
ProviderRaises ==
    /\ s_pc = "gathering"
    /\ \E i \in 1..Len(s_queries) :
         /\ s_state[i] = "pending"
         /\ s_state' = [s_state EXCEPT ![i] = "raised"]
         /\ s_last' = i
         /\ s_docs' = BatchOnError(s_queries, s_results, s_state)
    /\ s_pc' = "returned"
    /\ s_outcome' = "empty"
    /\ UNCHANGED <<s_mode, s_queries, s_results, s_requests>>
    /\ UNCHANGED <<rvars, last_status, gvars, nvars>>

\* every request has returned: the gather returns, the responses are merged,
\* "search_complete" is notified and the merged mapping is returned
GatherReturns ==
    /\ s_pc = "gathering"
    /\ \A i \in 1..Len(s_queries) : s_state[i] = "done"
    /\ \E completed \in SendOutcomes :
         IF completed
         THEN /\ s_pc' = "returned"
              /\ s_docs' = MergeAlong(EmptyDict,
                                      MergeOrder(Len(s_queries), s_last),
                                      s_queries, s_results)
              /\ s_outcome' = "docs"
              /\ last_status' = Sent("search_complete")
         ELSE /\ s_pc' = "raised"
              /\ s_outcome' = "raised"
              /\ UNCHANGED <<s_docs, last_status>>
    /\ UNCHANGED <<s_mode, s_queries, s_state, s_results, s_requests, s_last>>
    /\ UNCHANGED <<rvars, gvars, nvars>>

----------------------------------------------------------------------------
(* BaseResearcher.search_single_query *)

\* "if not query or len(query.split()) < 3: return {}"
TooShort(query) == query = <<>> \/ WordCount(query) < MinWords

\* the except clause: "query_error" is notified, then {} is returned; a
\* notification that raises there leaves the call
SingleFails ==
    /\ \E errored \in SendOutcomes :
         IF errored
         THEN /\ s_pc' = "returned"
              /\ s_outcome' = "empty"
              /\ last_status' = Sent("query_error")
         ELSE /\ s_pc' = "raised"
              /\ s_outcome' = "raised"
              /\ UNCHANGED last_status
    /\ UNCHANGED s_docs

CallSearchSingleQuery ==
    /\ s_pc = "idle"
    /\ gen_pc = "idle"
    /\ \E query \in QueryPool \cup {<<>>} :
         /\ s_mode' = "single"
         /\ s_queries' = <<query>>
         /\ IF TooShort(query)
            THEN /\ s_pc' = "returned"
                 /\ s_outcome' = "empty"
                 /\ UNCHANGED <<s_state, s_results, s_requests, s_docs,
                                last_status>>
            ELSE \E searching \in SendOutcomes :
                   IF searching
                   THEN /\ s_pc' = "searching"
                        /\ s_requests' =
                             << [query |-> query,
                                 topic |-> SearchTopic(analyst_type)] >>
                        /\ s_state' = <<"pending">>
                        /\ s_results' = << <<>> >>
                        /\ last_status' = Sent("query_searching")
                        /\ UNCHANGED <<s_docs, s_outcome>>
                   ELSE /\ SingleFails
                        /\ UNCHANGED <<s_state, s_results, s_requests>>
    /\ UNCHANGED s_last
    /\ UNCHANGED <<rvars, gvars, nvars>>

\* the request returns: the documents are built, "query_searched" is notified
SingleResponds ==
    /\ s_pc = "searching"
    /\ \E r \in ResponsePool, searched \in SendOutcomes :
         /\ s_results' = <<r>>
         /\ IF searched
            THEN /\ s_state' = <<"done">>
                 /\ s_pc' = "returned"
                 /\ s_docs' = AddItems(EmptyDict, s_queries[1], r)
                 /\ s_outcome' = "docs"
                 /\ last_status' = Sent("query_searched")
            ELSE /\ s_state' = <<"done">>
                 /\ SingleFails
    /\ s_last' = 1
    /\ UNCHANGED <<s_mode, s_queries, s_requests>>
    /\ UNCHANGED <<rvars, gvars, nvars>>

SingleRaises ==
    /\ s_pc = "searching"
    /\ s_state' = <<"raised">>
    /\ SingleFails
    /\ s_last' = 1
    /\ UNCHANGED <<s_mode, s_queries, s_results, s_requests>>
    /\ UNCHANGED <<rvars, gvars, nvars>>

NextSearch ==
    \/ CallSearchDocuments
    \/ ProviderResponds
    \/ ProviderRaises
    \/ GatherReturns
    \/ CallSearchSingleQuery
    \/ SingleResponds
    \/ SingleRaises

----------------------------------------------------------------------------
(* Briefing.create_briefings: one process_briefing task per category that  *)
(* has curated documents, admitted by a semaphore.  The tasks share one    *)
(* event loop: a task gives the loop up only where it awaits a             *)
(* notification or waits for the semaphore, and generate_content is a      *)
(* synchronous call that keeps the loop until it returns.                  *)

\* the dict "categories", in its iteration order
categories ==
    << [data_field |-> "financial_data", category |-> "financial",
        briefing_key |-> "financial_briefing"],
       [data_field |-> "news_data", category |-> "news",
        briefing_key |-> "news_briefing"],
       [data_field |-> "industry_data", category |-> "industry",
        briefing_key |-> "industry_briefing"],
       [data_field |-> "company_data", category |-> "company",
        briefing_key |-> "company_briefing"] >>

CategoryNames == {categories[i].category : i \in DOMAIN categories}

BriefingKeys == {categories[i].briefing_key : i \in DOMAIN categories}

\* the news task carries the key of the company slot
BriefingKeyMiskeyed(c) ==
    IF c = "news" THEN "company_briefing"
    ELSE (CHOOSE r \in {categories[i] : i \in DOMAIN categories} :
              r.category = c).briefing_key

\* task['briefing_key'] of the task made for a category
BriefingKey(c) ==
    (CHOOSE r \in {categories[i] : i \in DOMAIN categories} :
         r.category = c).briefing_key

\* asyncio.Semaphore(2)
SemaphoreValue == 2

\* a task for every category
HasTaskAlways(c) == TRUE

\* "if curated_data:": the category gets a task
HasTask(c) == curated[c]

\* a semaphore that admits every task
CanAcquireAlways(value) == TRUE

\* the semaphore admits a task while its value is positive
CanAcquire(value) == value > 0

\* response.text of the synthesis request of a category
BriefingTexts(c) == {<<>>, <<" ">>, <<c, "briefing">>, <<" ", c, "briefing", NL>>}

\* every result is stored
WithBriefingAlways(b, c, content) == Put(b, c, content)

\* "if result['content']: briefings[task['category']] = result['content']"
WithBriefing(b, c, content) == IF content # <<>> THEN Put(b, c, content) ELSE b

\* the slot writes of the setup loop: "" for each category without a task
RECURSIVE EmptySlotWrites(_)
EmptySlotWrites(i) ==
    IF i > Len(categories) THEN <<>>
    ELSE (IF HasTask(categories[i].category) THEN <<>>
          ELSE << [key |-> categories[i].briefing_key,
                   by |-> categories[i].category] >>)
         \o EmptySlotWrites(i + 1)

WrittenKeys(ws) == {ws[i].key : i \in DOMAIN ws}

\* a state dictionary in which no briefing key has been written
StateEmpty ==
    /\ state_has = {}
    /\ state_slots = [k \in BriefingKeys |-> <<>>]
    /\ state_briefings = EmptyDict

BriefIdle ==
    /\ b_pc = "idle"
    /\ b_task = [c \in CategoryNames |-> "none"]
    /\ b_running = "none"
    /\ briefing_semaphore = 0
    /\ briefings = EmptyDict
    /\ b_result = [c \in CategoryNames |-> <<>>]
    /\ b_fate = [c \in CategoryNames |-> "none"]
    /\ b_requests = [c \in CategoryNames |-> 0]
    /\ b_writes = <<>>
    /\ b_sent = [c \in CategoryNames |-> <<>>]

\* create_briefings up to the gather: the opening notification, the setup
\* loop and, when no category has a task, the return
CallCreateBriefings ==
    /\ b_pc = "idle"
    /\ e_pc = "idle"
    /\ \E ok \in SendOutcomes :
          IF ~ok
          THEN /\ b_pc' = "raised"
               /\ UNCHANGED <<last_status, dvars, b_task, briefing_semaphore>>
          ELSE /\ last_status' = Sent("processing")
               /\ b_task' = [c \in CategoryNames |->
                                IF HasTask(c) THEN "waiting" ELSE "none"]
               /\ state_slots' = [k \in BriefingKeys |->
                                    IF k \in WrittenKeys(EmptySlotWrites(1))
                                    THEN <<>> ELSE state_slots[k]]
               /\ IF \E c \in CategoryNames : HasTask(c)
                  THEN /\ briefing_semaphore' = SemaphoreValue
                       /\ b_pc' = "gathering"
                       /\ state_has' =
                              state_has \cup WrittenKeys(EmptySlotWrites(1))
                       /\ UNCHANGED state_briefings
                  ELSE /\ state_briefings' = briefings
                       /\ state_has' = state_has
                              \cup WrittenKeys(EmptySlotWrites(1))
                              \cup {"briefings"}
                       /\ b_pc' = "returned"
                       /\ UNCHANGED briefing_semaphore
    /\ b_writes' = IF b_pc' = "raised" THEN b_writes ELSE EmptySlotWrites(1)
    /\ UNCHANGED <<curated, b_sent, b_running, briefings, b_result, b_fate, b_requests>>
    /\ UNCHANGED <<rvars, gvars, svars, evars, xvars>>

\* "async with briefing_semaphore": a task that is scheduled enters
AcquireSemaphore(c) ==
    /\ b_task[c] = "waiting"
    /\ b_running = "none"
    /\ CanAcquire(briefing_semaphore)
    /\ briefing_semaphore' = briefing_semaphore - 1
    /\ b_task' = [b_task EXCEPT ![c] = "holding"]
    /\ b_running' = c
    /\ UNCHANGED <<curated, b_sent, b_pc, briefings, b_result, b_fate, b_requests,
                   b_writes>>
    /\ UNCHANGED <<rvars, last_status, gvars, svars, dvars, evars, xvars>>

\* generate_category_briefing reaches its "briefing_start" notification
StartBriefing(c) ==
    /\ b_task[c] = "holding"
    /\ b_running = c
    /\ IF Notifying
       THEN b_task' = [b_task EXCEPT ![c] = "start_sending"] /\ b_running' = "none"
       ELSE b_task' = [b_task EXCEPT ![c] = "ready"] /\ UNCHANGED b_running
    /\ UNCHANGED <<curated, b_sent, b_pc, briefing_semaphore, briefings, b_result,
                   b_fate, b_requests, b_writes>>
    /\ UNCHANGED <<rvars, last_status, gvars, svars, dvars, evars, xvars>>

\* the "briefing_start" notification returns, or raises: it is awaited
\* outside the try block, so the exception leaves the task through the
\* "async with" and reaches create_briefings through the gather
StartSent(c) ==
    /\ b_task[c] = "start_sending"
    /\ b_running = "none"
    /\ \E ok \in SendOutcomes :
          IF ok
          THEN /\ last_status' = Sent("briefing_start")
               /\ b_sent' = [b_sent EXCEPT ![c] = Append(@, "briefing_start")]
               /\ b_task' = [b_task EXCEPT ![c] = "ready"]
               /\ b_running' = c
               /\ UNCHANGED <<b_pc, briefing_semaphore>>
          ELSE /\ b_task' = [b_task EXCEPT ![c] = "raised"]
               /\ briefing_semaphore' = briefing_semaphore + 1
               /\ b_pc' = IF b_pc = "gathering" THEN "raised" ELSE b_pc
               /\ UNCHANGED <<last_status, b_running, b_sent>>
    /\ UNCHANGED <<curated, briefings, b_result, b_fate, b_requests, b_writes>>
    /\ UNCHANGED <<rvars, gvars, svars, dvars, evars, xvars>>

\* the sort of the documents raises on a score that float() rejects: the
\* sort is outside the try block, so the exception leaves the task like
\* that of the "briefing_start" notification
SortRaises(c) ==
    /\ b_task[c] = "ready"
    /\ b_running = c
    /\ b_task' = [b_task EXCEPT ![c] = "raised"]
    /\ briefing_semaphore' = briefing_semaphore + 1
    /\ b_pc' = IF b_pc = "gathering" THEN "raised" ELSE b_pc
    /\ b_running' = "none"
    /\ b_fate' = [b_fate EXCEPT ![c] = "unsorted"]
    /\ UNCHANGED <<curated, b_sent, briefings, b_result, b_requests, b_writes>>
    /\ UNCHANGED <<rvars, last_status, gvars, svars, dvars, evars, xvars>>

\* self.gemini_model.generate_content(prompt) is called
IssueSynthesis(c) ==
    /\ b_task[c] = "ready"
    /\ b_running = c
    /\ b_requests' = [b_requests EXCEPT ![c] = @ + 1]
    /\ b_task' = [b_task EXCEPT ![c] = "requesting"]
    /\ UNCHANGED <<curated, b_sent, b_pc, b_running, briefing_semaphore, briefings,
                   b_result, b_fate, b_writes>>
    /\ UNCHANGED <<rvars, last_status, gvars, svars, dvars, evars, xvars>>

\* the request returns: "content = response.text.strip()"
SynthesisReturns(c) ==
    /\ b_task[c] = "requesting"
    /\ b_running = c
    /\ \E t \in BriefingTexts(c) :
          LET content == Strip(t) IN
          /\ b_result' = [b_result EXCEPT ![c] = content]
          /\ b_fate' = [b_fate EXCEPT ![c] =
                           IF content = <<>> THEN "empty" ELSE "text"]
          /\ IF content # <<>> /\ Notifying
             THEN /\ b_task' = [b_task EXCEPT ![c] = "complete_sending"]
                  /\ b_running' = "none"
             ELSE /\ b_task' = [b_task EXCEPT ![c] = "writing"]
                  /\ UNCHANGED b_running
    /\ UNCHANGED <<curated, b_sent, b_pc, briefing_semaphore, briefings, b_requests,
                   b_writes>>
    /\ UNCHANGED <<rvars, last_status, gvars, svars, dvars, evars, xvars>>

\* the request raises: "except Exception: return {'content': ''}"
SynthesisRaises(c) ==
    /\ b_task[c] = "requesting"
    /\ b_running = c
    /\ b_result' = [b_result EXCEPT ![c] = <<>>]
    /\ b_fate' = [b_fate EXCEPT ![c] = "raised"]
    /\ b_task' = [b_task EXCEPT ![c] = "writing"]
    /\ UNCHANGED <<curated, b_sent, b_pc, b_running, briefing_semaphore, briefings,
                   b_requests, b_writes>>
    /\ UNCHANGED <<rvars, last_status, gvars, svars, dvars, evars, xvars>>

\* the "briefing_complete" notification returns, or raises inside the try
\* block, whose except clause returns the empty content
CompleteSent(c) ==
    /\ b_task[c] = "complete_sending"
    /\ b_running = "none"
    /\ \E ok \in SendOutcomes :
          IF ok
          THEN /\ last_status' = Sent("briefing_complete")
               /\ b_sent' = [b_sent EXCEPT ![c] = Append(@, "briefing_complete")]
               /\ UNCHANGED b_result
          ELSE /\ b_result' = [b_result EXCEPT ![c] = <<>>]
               /\ UNCHANGED <<last_status, b_sent>>
    /\ b_task' = [b_task EXCEPT ![c] = "writing"]
    /\ b_running' = c
    /\ UNCHANGED <<curated, b_pc, briefing_semaphore, briefings, b_fate,
                   b_requests, b_writes>>
    /\ UNCHANGED <<rvars, gvars, svars, dvars, evars, xvars>>

\* process_briefing after the result: the slot is written, the semaphore
\* released and the task ends
WriteBriefing(c) ==
    /\ b_task[c] = "writing"
    /\ b_running = c
    /\ briefings' = WithBriefing(briefings, c, b_result[c])
    /\ state_slots' = [state_slots EXCEPT ![BriefingKey(c)] = b_result[c]]
    /\ state_has' = state_has \cup {BriefingKey(c)}
    /\ b_writes' = Append(b_writes, [key |-> BriefingKey(c), by |-> c])
    /\ briefing_semaphore' = briefing_semaphore + 1
    /\ b_task' = [b_task EXCEPT ![c] = "done"]
    /\ b_running' = "none"
    /\ UNCHANGED <<curated, b_sent, b_pc, b_result, b_fate, b_requests, state_briefings>>
    /\ UNCHANGED <<rvars, last_status, gvars, svars, evars, xvars>>

\* the gather returns: "state['briefings'] = briefings; return state"
BriefingsGathered ==
    /\ b_pc = "gathering"
    /\ b_running = "none"
    /\ \A c \in CategoryNames : b_task[c] \in {"none", "done"}
    /\ state_briefings' = briefings
    /\ state_has' = state_has \cup {"briefings"}
    /\ b_pc' = "returned"
    /\ UNCHANGED <<state_slots, curated, b_task, b_running, briefing_semaphore,
                   briefings, b_result, b_fate, b_requests, b_writes, b_sent>>
    /\ UNCHANGED <<rvars, last_status, gvars, svars, evars, xvars>>

NextBrief ==
    \/ CallCreateBriefings
    \/ \E c \in CategoryNames : AcquireSemaphore(c)
    \/ \E c \in CategoryNames : StartBriefing(c)
    \/ \E c \in CategoryNames : StartSent(c)
    \/ \E c \in CategoryNames : SortRaises(c)
    \/ \E c \in CategoryNames : IssueSynthesis(c)
    \/ \E c \in CategoryNames : SynthesisReturns(c)
    \/ \E c \in CategoryNames : SynthesisRaises(c)
    \/ \E c \in CategoryNames : CompleteSent(c)
    \/ \E c \in CategoryNames : WriteBriefing(c)
    \/ BriefingsGathered

----------------------------------------------------------------------------
(* Editor.run / compile_briefings / edit_report / compile_content /        *)
(* content_sweep: the briefing slots are collected, compiled by one        *)
(* non-streaming request and cleaned up by one streaming request, whose    *)
(* text is broadcast in chunks; the result is written to state['report'].  *)

\* longest cleanup stream, in chunks that carry text or nothing
MaxChunks == 3

\* the dict "briefing_keys", in its iteration order
briefing_keys ==
    << [category |-> "company", key |-> "company_briefing"],
       [category |-> "industry", key |-> "industry_briefing"],
       [category |-> "financial", key |-> "financial_briefing"],
       [category |-> "news", key |-> "news_briefing"] >>

\* "if content := state.get(key)": the slots that hold text, in key order
RECURSIVE CollectedFrom(_)
CollectedFrom(i) ==
    IF i > Len(briefing_keys) THEN <<>>
    ELSE (IF state_slots[briefing_keys[i].key] # <<>>
          THEN << state_slots[briefing_keys[i].key] >> ELSE <<>>)
         \o CollectedFrom(i + 1)

\* "\n\n".join(...)
RECURSIVE Join(_)
Join(texts) ==
    IF texts = <<>> THEN <<>>
    ELSE IF Len(texts) = 1 THEN texts[1]
    ELSE texts[1] \o <<NL, NL>> \o Join(Tail(texts))

\* the references section made from the curated citations
format_references_section(refs) == IF refs THEN <<"References">> ELSE <<>>

\* message.content of the compile response
CompileTexts == {<<>>, <<" ">>, <<NL, "compiled", " ", "report", " ">>}

\* "initial_report = ...content.strip()" and the references appended to it
InitialReport(t, reference_text) ==
    IF reference_text # <<>>
    THEN Strip(t) \o <<NL, NL>> \o reference_text
    ELSE Strip(t)

\* the except clause of compile_content
CompileFallback(combined_content) == Strip(combined_content)

\* delta.content of one chunk of the cleanup stream
SweepChunks ==
    { <<>>, <<" ">>, <<"b", ".">>, <<"b", "b">>,
      <<"c", "c", "c", "c", "c", "c", "c", "c", "c", "c", NL>> }

\* the characters that end a sentence or a line
Boundaries == {".", "!", "?", NL}

MinChunkLength == 10

\* "any(char in buffer for char in ['.', '!', '?', '\n']) and len(buffer) > 10"
FlushDue(buf) ==
    (\E i \in DOMAIN buf : buf[i] \in Boundaries) /\ Len(buf) > MinChunkLength

\* the partial stream is kept when the cleanup raises
SweepFallbackPartial(content, accumulated) == Strip(accumulated)

\* the except clause of content_sweep
SweepFallback(content, accumulated) == Strip(content)

EditIdle ==
    /\ e_pc = "idle"
    /\ individual_briefings = <<>>
    /\ edited_report = <<>>
    /\ accumulated_text = <<>>
    /\ buffer = <<>>
    /\ e_received = 0
    /\ final_report = <<>>
    /\ e_requests = <<>>
    /\ e_chunks = <<>>
    /\ e_complete = <<>>
    /\ e_log = <<>>
    /\ state_report = <<>>
    /\ editor_report = <<>>
    /\ e_outcome = "none"

\* compile_briefings up to the collection of the briefings; without any
\* briefing it appends its message and returns, and run has nothing to mirror
CallCompileBriefings ==
    /\ e_pc = "idle"
    /\ b_pc \in {"idle", "returned"}
    /\ \E ok1 \in SendOutcomes, ok2 \in SendOutcomes :
          IF ~(ok1 /\ ok2)
          THEN /\ e_pc' = "done"
               /\ e_outcome' = "raised"
               /\ last_status' = IF ok1 THEN Sent("processing") ELSE last_status
               /\ UNCHANGED <<individual_briefings, state_has, e_log>>
          ELSE /\ last_status' = Sent("processing")
               /\ individual_briefings' = CollectedFrom(1)
               /\ e_log' = Append(e_log, "collected")
               /\ IF CollectedFrom(1) = <<>>
                  THEN /\ e_pc' = "done"
                       /\ e_outcome' = "returned"
                       /\ state_has' = state_has \cup {"messages"}
                  ELSE /\ e_pc' = "edit_report"
                       /\ UNCHANGED <<e_outcome, state_has>>
    /\ UNCHANGED <<references, e_complete, edited_report, accumulated_text, buffer,
                   e_received, final_report, e_requests, e_chunks,
                   state_report, editor_report>>
    /\ UNCHANGED <<state_slots, state_briefings>>
    /\ UNCHANGED <<rvars, gvars, svars, bvars, xvars>>

\* edit_report returns "" without a report: compile_briefings appends its
\* message and returns, and run finds no 'report' to mirror
ReturnsEmpty ==
    /\ e_pc' = "done"
    /\ e_outcome' = "returned"
    /\ state_has' = state_has \cup {"messages"}

\* edit_report sends its "compilation" notification and compile_content
\* issues the compile request
StartCompile ==
    /\ e_pc = "edit_report"
    /\ \E ok \in SendOutcomes :
          IF ok
          THEN /\ last_status' = Sent("processing")
               /\ e_requests' = Append(e_requests, "compile")
               /\ e_log' = Append(e_log, "compile_issued")
               /\ e_pc' = "compiling"
               /\ UNCHANGED <<e_outcome, state_has>>
          ELSE /\ ReturnsEmpty
               /\ UNCHANGED <<last_status, e_requests, e_log>>
    /\ UNCHANGED <<references, e_complete, individual_briefings, edited_report,
                   accumulated_text, buffer, e_received, final_report,
                   e_chunks, state_report, editor_report>>
    /\ UNCHANGED <<state_slots, state_briefings>>
    /\ UNCHANGED <<rvars, gvars, svars, bvars, xvars>>

\* edit_report after compile_content has returned the text "edited": an
\* empty text ends it, otherwise the "cleanup" and "format" notifications
\* are sent and content_sweep issues the cleanup request
AfterCompile(edited, how) ==
    /\ edited_report' = edited
    /\ IF edited = <<>>
       THEN /\ ReturnsEmpty
            /\ e_log' = Append(e_log, how)
            /\ UNCHANGED <<last_status, e_requests>>
       ELSE \E ok1 \in SendOutcomes, ok2 \in SendOutcomes :
               IF ok1 /\ ok2
               THEN /\ last_status' = Sent("processing")
                    /\ e_requests' = Append(e_requests, "cleanup")
                    /\ e_log' = e_log \o <<how, "cleanup_issued">>
                    /\ e_pc' = "sweeping"
                    /\ UNCHANGED <<e_outcome, state_has>>
               ELSE /\ ReturnsEmpty
                    /\ e_log' = Append(e_log, how)
                    /\ last_status' = IF ok1 THEN Sent("processing")
                                      ELSE last_status
                    /\ UNCHANGED e_requests
    /\ UNCHANGED <<references, e_complete, individual_briefings, accumulated_text, buffer,
                   e_received, final_report, e_chunks, state_report,
                   editor_report>>
    /\ UNCHANGED <<state_slots, state_briefings>>
    /\ UNCHANGED <<rvars, gvars, svars, bvars, xvars>>

\* the compile request returns its message
CompileReturns ==
    /\ e_pc = "compiling"
    /\ \E t \in CompileTexts :
          AfterCompile(InitialReport(t, format_references_section(references)),
                       "compile_returned")

\* the compile request is issued again after it has raised
CompileRaisesAndRetries ==
    /\ e_pc = "compiling"
    /\ e_requests' = Append(e_requests, "compile")
    /\ e_log' = e_log \o <<"compile_raised", "compile_issued">>
    /\ UNCHANGED <<references, e_complete, e_pc, individual_briefings, edited_report,
                   accumulated_text, buffer, e_received, final_report,
                   e_chunks, state_report, editor_report, e_outcome>>
    /\ UNCHANGED <<rvars, last_status, gvars, svars, bvars, dvars, xvars>>

\* the compile request raises: the except clause of compile_content
CompileRaises ==
    /\ e_pc = "compiling"
    /\ AfterCompile(CompileFallback(Join(individual_briefings)),
                    "compile_raised")

\* content_sweep has ended with the text "final"
SweepDone(final, how) ==
    /\ final_report' = final
    /\ e_log' = Append(e_log, how)
    /\ e_pc' = "swept"

\* the cleanup request raises before any chunk
SweepRequestRaises ==
    /\ e_pc = "sweeping"
    /\ e_received = 0
    /\ accumulated_text = <<>>
    /\ SweepDone(SweepFallback(edited_report, accumulated_text), "cleanup_raised")
    /\ UNCHANGED <<references, e_complete, individual_briefings, edited_report,
                   accumulated_text, buffer, e_received, e_requests, e_chunks,
                   state_report, editor_report, e_outcome>>
    /\ UNCHANGED <<rvars, last_status, gvars, svars, bvars, dvars, xvars>>

\* one chunk of the stream: its text is accumulated and the buffer is
\* broadcast when it is due; a broadcast that raises ends the sweep in the
\* except clause
SweepChunk ==
    /\ e_pc = "sweeping"
    /\ e_received < MaxChunks
    /\ e_received' = e_received + 1
    /\ \E chunk_text \in SweepChunks :
          LET buf == buffer \o chunk_text IN
          /\ accumulated_text' = accumulated_text \o chunk_text
          /\ IF chunk_text # <<>> /\ FlushDue(buf)
             THEN \E ok \in SendOutcomes :
                     IF ok
                     THEN /\ buffer' = <<>>
                          /\ e_chunks' = IF Notifying THEN Append(e_chunks, buf)
                                         ELSE e_chunks
                          /\ last_status' = Sent("report_chunk")
                          /\ UNCHANGED <<e_pc, final_report, e_log>>
                     ELSE /\ buffer' = buf
                          /\ SweepDone(SweepFallback(edited_report,
                                                     accumulated_text'),
                                       "cleanup_raised")
                          /\ UNCHANGED <<e_chunks, last_status>>
             ELSE /\ buffer' = buf
                  /\ UNCHANGED <<e_chunks, last_status, e_pc, final_report,
                                 e_log>>
    /\ UNCHANGED <<references, e_complete, individual_briefings, edited_report,
                   e_requests, state_report, editor_report, e_outcome>>
    /\ UNCHANGED <<rvars, gvars, svars, bvars, dvars, xvars>>

\* the stream raises between two chunks
SweepRaises ==
    /\ e_pc = "sweeping"
    /\ e_received > 0
    /\ SweepDone(SweepFallback(edited_report, accumulated_text), "cleanup_raised")
    /\ UNCHANGED <<references, e_complete, individual_briefings, edited_report,
                   accumulated_text, buffer, e_received, e_requests, e_chunks,
                   state_report, editor_report, e_outcome>>
    /\ UNCHANGED <<rvars, last_status, gvars, svars, bvars, dvars, xvars>>

\* the chunk with finish_reason "stop": what is left in the buffer is
\* broadcast and the loop is left
SweepStops ==
    /\ e_pc = "sweeping"
    /\ IF Notifying /\ buffer # <<>>
       THEN \E ok \in SendOutcomes :
               IF ok
               THEN /\ e_chunks' = Append(e_chunks, buffer)
                    /\ last_status' = Sent("report_chunk")
                    /\ SweepDone(Strip(accumulated_text), "cleanup_returned")
               ELSE /\ SweepDone(SweepFallback(edited_report, accumulated_text),
                                 "cleanup_raised")
                    /\ UNCHANGED <<e_chunks, last_status>>
       ELSE /\ SweepDone(Strip(accumulated_text), "cleanup_returned")
            /\ UNCHANGED <<e_chunks, last_status>>
    /\ UNCHANGED <<references, e_complete, individual_briefings, edited_report,
                   accumulated_text, buffer, e_received, e_requests,
                   state_report, editor_report, e_outcome>>
    /\ UNCHANGED <<rvars, gvars, svars, bvars, dvars, xvars>>

\* the stream ends without a "stop" chunk: nothing more is broadcast
SweepEnds ==
    /\ e_pc = "sweeping"
    /\ SweepDone(Strip(accumulated_text), "cleanup_returned")
    /\ UNCHANGED <<references, e_complete, individual_briefings, edited_report,
                   accumulated_text, buffer, e_received, e_requests, e_chunks,
                   state_report, editor_report, e_outcome>>
    /\ UNCHANGED <<rvars, last_status, gvars, svars, bvars, dvars, xvars>>

\* the result of the "editor_complete" notification carries final_report
CompletePayloadCompiled(final, edited) == edited

\* "report": final_report in the result of the "editor_complete" notification
CompletePayload(final, edited) == final

\* edit_report after content_sweep: a blank text ends it without a report,
\* otherwise the report is written to the state in both places
WriteReport ==
    /\ e_pc = "swept"
    /\ IF Strip(final_report) = <<>>
       THEN /\ ReturnsEmpty
            /\ UNCHANGED <<state_report, editor_report, e_log>>
       ELSE /\ state_report' = final_report
            /\ editor_report' = final_report
            /\ state_has' = state_has \cup {"report", "status", "editor"}
            /\ e_log' = Append(e_log, "report_written")
            /\ e_pc' = "announcing"
            /\ UNCHANGED e_outcome
    /\ UNCHANGED <<references, e_complete, individual_briefings, edited_report,
                   accumulated_text, buffer, e_received, final_report,
                   e_requests, e_chunks>>
    /\ UNCHANGED <<state_slots, state_briefings>>
    /\ UNCHANGED <<rvars, last_status, gvars, svars, bvars, xvars>>

\* the "editor_complete" notification, which carries the report; whether it
\* returns or raises, compile_briefings appends its message and returns, and
\* run mirrors state['report'] once more
AnnounceReport ==
    /\ e_pc = "announcing"
    /\ \E ok \in SendOutcomes :
          IF ok
          THEN /\ last_status' = Sent("editor_complete")
               /\ e_complete' =
                      IF Notifying
                      THEN Append(e_complete,
                                  CompletePayload(final_report, edited_report))
                      ELSE e_complete
          ELSE UNCHANGED <<last_status, e_complete>>
    /\ editor_report' = state_report
    /\ state_has' = state_has \cup {"messages"}
    /\ e_pc' = "done"
    /\ e_outcome' = "returned"
    /\ UNCHANGED <<references, individual_briefings, edited_report,
                   accumulated_text, buffer, e_received, final_report,
                   e_requests, e_chunks, e_log, state_report>>
    /\ UNCHANGED <<state_slots, state_briefings>>
    /\ UNCHANGED <<rvars, gvars, svars, bvars, xvars>>

NextEdit ==
    \/ CallCompileBriefings
    \/ StartCompile
    \/ CompileReturns
    \/ CompileRaises
    \/ SweepRequestRaises
    \/ SweepChunk
    \/ SweepRaises
    \/ SweepStops
    \/ SweepEnds
    \/ WriteReport
    \/ AnnounceReport

----------------------------------------------------------------------------
(* generate_category_briefing, from the documents to the body of the       *)
(* prompt: the documents are sorted by their evaluation score, highest     *)
(* first, and their entries are added while the body stays under the       *)
(* limit.  Texts are represented by their lengths.                         *)

\* longest list of documents handed to one briefing
MaxDocs == 3

\* self.max_doc_length
max_doc_length == 8000

\* the limit of "if total_length + len(doc_entry) < 120000"
PromptLimit == 120000

\* len("Title: "), len("\n\nContent: ") and len("... [content truncated]")
TitleLabelLength == 7
ContentLabelLength == 11
TruncationMarkLength == 23

\* evaluation.overall_score of a document: absent, numeric or not numeric
Scores == {"missing", "0.5", "0.9", "high"}

\* the documents a curator can hand over; the code bounds the content of
\* an entry and leaves its title as long as it comes
DocPool ==
    { [url |-> "u1", title_len |-> 59882, content_len |-> 100, score |-> "0.9"],
      [url |-> "u2", title_len |-> 51959, content_len |-> 9000, score |-> "0.5"],
      [url |-> "u3", title_len |-> 59881, content_len |-> 100, score |-> "0.5"],
      [url |-> "u4", title_len |-> 10, content_len |-> 72, score |-> "missing"],
      [url |-> "u5", title_len |-> 10, content_len |-> 72, score |-> "high"],
      [url |-> "u6", title_len |-> 10, content_len |-> 72, score |-> "0.9"] }

\* lists of distinct documents
DocLists ==
    {l \in SeqUpTo(DocPool, MaxDocs) :
        \A i \in DOMAIN l, j \in DOMAIN l : i # j => l[i] # l[j]}

\* float(...) accepts the score
Numeric(score) == score \in {"missing", "0.5", "0.9"}

\* float(x[1].get('evaluation', {}).get('overall_score', '0')), in tenths
ScoreKey(doc) ==
    CASE doc.score = "missing" -> 0
      [] doc.score = "0.5" -> 5
      [] doc.score = "0.9" -> 9

\* sorted(..., reverse=True) is stable: a document goes behind the
\* documents that score at least as high
InsertByScore(sorted, doc) ==
    LET ahead == {i \in DOMAIN sorted : ScoreKey(sorted[i]) >= ScoreKey(doc)}
        k == IF ahead = {} THEN 0
             ELSE CHOOSE i \in ahead : \A j \in ahead : j <= i
    IN  SubSeq(sorted, 1, k) \o <<doc>> \o SubSeq(sorted, k + 1, Len(sorted))

RECURSIVE SortByScore(_)
SortByScore(docs) ==
    IF docs = <<>> THEN <<>>
    ELSE InsertByScore(SortByScore(SubSeq(docs, 1, Len(docs) - 1)),
                       docs[Len(docs)])

\* len(content) after "content[:self.max_doc_length] + '... [content truncated]'"
KeptContentLength(doc) ==
    IF doc.content_len > max_doc_length
    THEN max_doc_length + TruncationMarkLength
    ELSE doc.content_len

\* len(doc_entry) of f"Title: {title}\n\nContent: {content}"
EntryLength(doc) ==
    TitleLabelLength + doc.title_len + ContentLabelLength + KeptContentLength(doc)

\* an entry that brings the body to the limit is added too
FitsUpToLimit(total, doc) == total + EntryLength(doc) <= PromptLimit

\* "if total_length + len(doc_entry) < 120000"
Fits(total, doc) == total + EntryLength(doc) < PromptLimit

PromptIdle ==
    /\ p_pc = "idle"
    /\ sorted_items = <<>>
    /\ p_next = 1
    /\ doc_texts = <<>>
    /\ total_length = 0

\* the documents are sorted; a score that is not numeric makes float()
\* raise, outside any try block
SortDocuments ==
    /\ p_pc = "idle"
    /\ IF \A i \in DOMAIN doc_items : Numeric(doc_items[i].score)
       THEN sorted_items' = SortByScore(doc_items) /\ p_pc' = "selecting"
       ELSE p_pc' = "raised" /\ UNCHANGED sorted_items
    /\ UNCHANGED <<doc_items, p_next, doc_texts, total_length>>
    /\ UNCHANGED <<rvars, last_status, gvars, svars, dvars, bvars, evars, jvars>>

\* one turn of the loop over sorted_items: the entry is added, or the loop
\* is left
SelectDocument ==
    /\ p_pc = "selecting"
    /\ p_next <= Len(sorted_items)
    /\ LET doc == sorted_items[p_next] IN
       IF Fits(total_length, doc)
       THEN /\ doc_texts' = Append(doc_texts,
                                   [url |-> doc.url, length |-> EntryLength(doc)])
            /\ total_length' = total_length + EntryLength(doc)
            /\ p_next' = p_next + 1
            /\ UNCHANGED p_pc
       ELSE /\ p_pc' = "built"
            /\ UNCHANGED <<doc_texts, total_length, p_next>>
    /\ UNCHANGED <<doc_items, sorted_items>>
    /\ UNCHANGED <<rvars, last_status, gvars, svars, dvars, bvars, evars, jvars>>

\* the loop has run through every document
SelectionEnds ==
    /\ p_pc = "selecting"
    /\ p_next > Len(sorted_items)
    /\ p_pc' = "built"
    /\ UNCHANGED <<doc_items, sorted_items, p_next, doc_texts, total_length>>
    /\ UNCHANGED <<rvars, last_status, gvars, svars, dvars, bvars, evars, jvars>>

NextPrompt ==
    \/ SortDocuments
    \/ SelectDocument
    \/ SelectionEnds

----------------------------------------------------------------------------
(* Two jobs that run compile_briefings on the same Editor.  The Editor     *)
(* keeps the identity of the job at hand in self.context, which each       *)
(* compile_briefings overwrites and the later steps read back.  A job      *)
(* gives the event loop up where it awaits a notification or a request.    *)

Jobs == {"job1", "job2"}

\* company, industry and hq_location of the state of a job
JobContext(j) ==
    IF j = "job1"
    THEN [company |-> "Acme", industry |-> "tools", hq_location |-> "Oslo"]
    ELSE [company |-> "Birch", industry |-> "paper", hq_location |-> "Turku"]

\* self.context as set by __init__
DefaultContext ==
    [company |-> "Unknown Company", industry |-> "Unknown",
     hq_location |-> "Unknown"]

\* no request made, no notification delivered
NoContext == [company |-> "", industry |-> "", hq_location |-> ""]

JobsIdle ==
    /\ self_context = DefaultContext
    /\ j_pc = [j \in Jobs |-> "idle"]
    /\ j_running = "none"
    /\ j_company = [j \in Jobs |-> ""]
    /\ j_compile = [j \in Jobs |-> NoContext]
    /\ j_cleanup = [j \in Jobs |-> NoContext]
    /\ j_complete = [j \in Jobs |-> ""]

\* the job is scheduled: it owns the event loop or nobody does
Scheduled(j) == j_running \in {"none", j}

\* an awaited notification suspends the job; without a broadcaster none is
\* awaited and the job runs on
AfterNotification(j) == IF Notifying THEN "none" ELSE j

\* compile_briefings sets self.context, sends its two notifications and
\* collects the briefings: with none of them it returns
StartJob(j) ==
    /\ j_pc[j] = "idle"
    /\ Scheduled(j)
    /\ self_context' = JobContext(j)
    /\ \E ok \in SendOutcomes, briefed \in BOOLEAN :
          IF ok
          THEN /\ j_pc' = [j_pc EXCEPT ![j] = IF briefed THEN "collected"
                                              ELSE "done"]
               /\ j_running' = IF briefed THEN AfterNotification(j) ELSE "none"
          ELSE j_pc' = [j_pc EXCEPT ![j] = "raised"] /\ j_running' = "none"
    /\ UNCHANGED <<j_company, j_compile, j_cleanup, j_complete>>
    /\ UNCHANGED <<rvars, last_status, gvars, svars, dvars, bvars, evars, pvars>>

\* edit_report reads its local company and sends "compilation"
EnterEditReport(j) ==
    /\ j_pc[j] = "collected"
    /\ Scheduled(j)
    /\ j_company' = [j_company EXCEPT ![j] = self_context.company]
    /\ \E ok \in SendOutcomes :
          IF ok
          THEN j_pc' = [j_pc EXCEPT ![j] = "edit_report"]
               /\ j_running' = AfterNotification(j)
          ELSE j_pc' = [j_pc EXCEPT ![j] = "done"] /\ j_running' = "none"
    /\ UNCHANGED <<self_context, j_compile, j_cleanup, j_complete>>
    /\ UNCHANGED <<rvars, last_status, gvars, svars, dvars, bvars, evars, pvars>>

\* compile_content builds its prompt from self.context and awaits the
\* compile request
IssueCompile(j) ==
    /\ j_pc[j] = "edit_report"
    /\ Scheduled(j)
    /\ j_compile' = [j_compile EXCEPT ![j] = self_context]
    /\ j_pc' = [j_pc EXCEPT ![j] = "compiling"]
    /\ j_running' = "none"
    /\ UNCHANGED <<self_context, j_company, j_cleanup, j_complete>>
    /\ UNCHANGED <<rvars, last_status, gvars, svars, dvars, bvars, evars, pvars>>

\* the compile request has returned or raised: with a text in hand and the
\* "cleanup" and "format" notifications sent, content_sweep builds its
\* prompt from self.context and awaits the cleanup request
IssueCleanup(j) ==
    /\ j_pc[j] = "compiling"
    /\ Scheduled(j)
    /\ \E compiled \in BOOLEAN, ok \in SendOutcomes :
          IF compiled /\ ok
          THEN /\ j_cleanup' = [j_cleanup EXCEPT ![j] = self_context]
               /\ j_pc' = [j_pc EXCEPT ![j] = "sweeping"]
          ELSE /\ j_pc' = [j_pc EXCEPT ![j] = "done"]
               /\ UNCHANGED j_cleanup
    /\ j_running' = "none"
    /\ UNCHANGED <<self_context, j_company, j_compile, j_complete>>
    /\ UNCHANGED <<rvars, last_status, gvars, svars, dvars, bvars, evars, pvars>>

\* the cleanup has ended: with a report written, the "editor_complete"
\* notification carries the local company
CompleteJob(j) ==
    /\ j_pc[j] = "sweeping"
    /\ Scheduled(j)
    /\ \E written \in BOOLEAN, ok \in SendOutcomes :
          j_complete' = [j_complete EXCEPT ![j] =
                            IF written /\ ok /\ Notifying THEN j_company[j]
                            ELSE @]
    /\ j_pc' = [j_pc EXCEPT ![j] = "done"]
    /\ j_running' = "none"
    /\ UNCHANGED <<self_context, j_company, j_compile, j_cleanup>>
    /\ UNCHANGED <<rvars, last_status, gvars, svars, dvars, bvars, evars, pvars>>

NextJobs ==
    \/ \E j \in Jobs : StartJob(j)
    \/ \E j \in Jobs : EnterEditReport(j)
    \/ \E j \in Jobs : IssueCompile(j)
    \/ \E j \in Jobs : IssueCleanup(j)
    \/ \E j \in Jobs : CompleteJob(j)

----------------------------------------------------------------------------
(* Initial state: a researcher and the state dictionary of one call *)

Init ==
    /\ analyst_type \in AnalystTypes
    /\ \E b \in Broadcasters : websocket_manager = b.ws /\ job_id = b.job
    /\ \E c \in CallContexts : company = c.company /\ current_year = c.year
    /\ last_status = ""
    /\ gen_pc = "idle"
    /\ attempt = 0
    /\ queries = <<>>
    /\ current_query = <<>>
    /\ current_query_number = 1
    /\ gen_result = <<>>
    /\ gen_outcome = "none"
    /\ requests = 0
    /\ failures = 0
    /\ text = <<>>
    /\ overdue = FALSE
    /\ slept = <<>>
    /\ empty_stream = FALSE
    /\ discarded = FALSE
    /\ s_pc = "idle"
    /\ s_mode = "none"
    /\ s_queries = <<>>
    /\ s_state = <<>>
    /\ s_results = <<>>
    /\ s_requests = <<>>
    /\ s_last = 0
    /\ s_docs = <<>>
    /\ s_outcome = "none"
    /\ StateEmpty
    /\ curated = [c \in CategoryNames |-> FALSE]
    /\ BriefIdle
    /\ references = FALSE
    /\ EditIdle
    /\ PromptIdle
    /\ doc_items = <<>>
    /\ JobsIdle

\* the search paths read neither the company nor the year
InitSearch == Init /\ company = <<"Acme">>

\* the researcher at rest, as the nodes downstream of it find it
ResearcherIdle ==
    /\ analyst_type = "base_researcher"
    /\ company = <<"Acme">>
    /\ current_year = 2026
    /\ last_status = ""
    /\ gen_pc = "idle"
    /\ attempt = 0
    /\ queries = <<>>
    /\ current_query = <<>>
    /\ current_query_number = 1
    /\ gen_result = <<>>
    /\ gen_outcome = "none"
    /\ requests = 0
    /\ failures = 0
    /\ text = <<>>
    /\ overdue = FALSE
    /\ slept = <<>>
    /\ empty_stream = FALSE
    /\ discarded = FALSE
    /\ s_pc = "idle"
    /\ s_mode = "none"
    /\ s_queries = <<>>
    /\ s_state = <<>>
    /\ s_results = <<>>
    /\ s_requests = <<>>
    /\ s_last = 0
    /\ s_docs = <<>>
    /\ s_outcome = "none"

\* create_briefings is handed a state with its curated documents
InitBrief ==
    /\ ResearcherIdle
    /\ \E b \in Broadcasters : websocket_manager = b.ws /\ job_id = b.job
    /\ StateEmpty
    /\ curated \in [CategoryNames -> BOOLEAN]
    /\ BriefIdle
    /\ references = FALSE
    /\ EditIdle
    /\ PromptIdle
    /\ doc_items = <<>>
    /\ JobsIdle

\* what a briefing slot holds after create_briefings: "" or a trimmed text
SlotTexts(k) ==
    {<<>>} \cup {Strip(t) : t \in BriefingTexts(
                    (CHOOSE r \in {categories[i] : i \in DOMAIN categories} :
                         r.briefing_key = k).category)}

\* compile_briefings is handed the state that create_briefings has left
InitEdit ==
    /\ ResearcherIdle
    /\ \E b \in Broadcasters : websocket_manager = b.ws /\ job_id = b.job
    /\ state_slots \in {f \in [BriefingKeys -> UNION {SlotTexts(k) : k \in BriefingKeys}] :
                           \A k \in BriefingKeys : f[k] \in SlotTexts(k)}
    /\ state_has = BriefingKeys \cup {"briefings"}
    /\ state_briefings =
           [c \in {x \in CategoryNames : state_slots[BriefingKey(x)] # <<>>} |->
               state_slots[BriefingKey(c)]]
    /\ curated = [c \in CategoryNames |-> state_slots[BriefingKey(c)] # <<>>]
    /\ BriefIdle
    /\ references \in BOOLEAN
    /\ EditIdle
    /\ PromptIdle
    /\ doc_items = <<>>
    /\ JobsIdle

\* one briefing is handed the curated documents of its category
InitPrompt ==
    /\ ResearcherIdle
    /\ \E b \in Broadcasters : websocket_manager = b.ws /\ job_id = b.job
    /\ StateEmpty
    /\ curated = [c \in CategoryNames |-> FALSE]
    /\ BriefIdle
    /\ references = FALSE
    /\ EditIdle
    /\ PromptIdle
    /\ doc_items \in DocLists \ {<<>>}
    /\ JobsIdle

\* one Editor serves the jobs of the application
InitJobs ==
    /\ ResearcherIdle
    /\ \E b \in Broadcasters : websocket_manager = b.ws /\ job_id = b.job
    /\ StateEmpty
    /\ curated = [c \in CategoryNames |-> FALSE]
    /\ BriefIdle
    /\ references = FALSE
    /\ EditIdle
    /\ PromptIdle
    /\ doc_items = <<>>
    /\ JobsIdle

\* the calls of the researcher and the two nodes downstream of it
Next == NextGen \/ NextSearch \/ NextBrief \/ NextEdit \/ NextPrompt \/ NextJobs

Spec == Init /\ [][Next]_vars

SpecGen == Init /\ [][NextGen]_vars

SpecSearch == InitSearch /\ [][NextSearch]_vars

SpecBrief == InitBrief /\ [][NextBrief]_vars

SpecEdit == InitEdit /\ [][NextEdit]_vars

SpecPrompt == InitPrompt /\ [][NextPrompt]_vars

SpecJobs == InitJobs /\ [][NextJobs]_vars

----------------------------------------------------------------------------
(* Properties of generate_queries *)

GenDone == gen_pc \in {"returned", "raised"}

\* the lines of a text, read symbol by symbol
RECURSIVE LinesOf(_, _)
LinesOf(t, line) ==
    IF t = <<>> THEN <<line>>
    ELSE IF Head(t) = NL THEN <<line>> \o LinesOf(Tail(t), <<>>)
    ELSE LinesOf(Tail(t), Append(line, Head(t)))

\* a line without its leading and trailing whitespace
Trimmed(l) ==
    LET ink == {i \in 1..Len(l) : l[i] \notin Whitespace}
    IN  IF ink = {} THEN <<>>
        ELSE SubSeq(l, CHOOSE i \in ink : \A j \in ink : i <= j,
                       CHOOSE i \in ink : \A j \in ink : i >= j)

\* the non-blank trimmed lines among the first n lines of a text
TrimmedLines(t, n) ==
    SelectSeq([i \in 1..n |-> Trimmed(LinesOf(t, <<>>)[i])], NonEmpty)

LineCount(t) == Len(LinesOf(t, <<>>))

\* C1: when all three attempts have failed, the call returns, and what it
\* returns is the fallback list of the researcher's category, the company
\* and the year, of 1 to 4 entries.
C1_ExhaustedReturnsFallback ==
    (GenDone /\ failures = max_retries) =>
        /\ gen_pc = "returned"
        /\ gen_result = _fallback_queries(analyst_type, company, current_year)
        /\ Len(gen_result) \in 1..MaxReturned

\* C2: whatever the completion provider does, the call returns without
\* raising, with 1 to 4 queries; after a successful attempt they are the
\* first 4 finalized queries of the stream, in order.
C2_ReturnsOneToFourQueries ==
    GenDone =>
        /\ gen_outcome # "raised"
        /\ Len(gen_result) >= 1
        /\ Len(gen_result) <= MaxReturned
        /\ gen_outcome = "queries" =>
              gen_result = Take(TrimmedLines(text, LineCount(text)), MaxReturned)

\* C3 as stated: once an attempt has finalized a query, no further completion
\* request is issued.
C3_NoRequestAfterFinalizedQuery ==
    [][queries # <<>> => requests' = requests]_vars

\* C3 as amended: at most 3 requests are issued; a request is in flight only
\* when every earlier attempt has failed; an attempt that reaches the end of
\* its stream without an exception and with at least one query is the last
\* request of the call; the fallback list is returned only after 3 failed
\* attempts.
C3_RequestsFollowFailures ==
    /\ requests <= max_retries
    /\ failures <= max_retries
    /\ gen_pc \in {"requesting", "streaming"} => requests = failures + 1
    /\ gen_pc \in {"failed", "sleeping"} => requests = failures
    /\ gen_outcome = "queries" => requests = failures + 1 /\ gen_result # <<>>
    /\ gen_outcome \in {"fallback", "raised"} =>
          requests = max_retries /\ failures = max_retries

\* C3 happens: the third attempt succeeds after two failed ones and their
\* two backoff delays
C3_ThirdAttemptSucceeds ==
    /\ gen_outcome = "queries"
    /\ requests = 3
    /\ failures = 2
    /\ slept = <<2, 4>>

C5_AttemptEndsAtTimeout ==
    overdue => gen_pc \notin {"requesting", "streaming"}

----------------------------------------------------------------------------
(* Properties of the search paths *)

ValidHits(r) == {i \in 1..Len(r) : r[i].url # "" /\ r[i].content # ""}

\* the requests whose response holds a usable hit for the url u
Returning(u) ==
    {i \in 1..Len(s_results) :
        \E j \in ValidHits(s_results[i]) : s_results[i][j].url = u}

Greatest(S) == CHOOSE x \in S : \A y \in S : y <= x

\* C6: in search_documents, when one of the dispatched requests raises, the
\* call returns the empty mapping and does not raise, whatever the other
\* requests returned.
C6_OneFailureEmptiesBatch ==
    (s_mode = "batch" /\ \E i \in 1..Len(s_state) : s_state[i] = "raised") =>
        /\ s_pc = "returned"
        /\ s_outcome = "empty"
        /\ s_docs = EmptyDict

\* C6 happens: one request returned a usable hit, another one raised
C6_RaisedBesideUsableHit ==
    /\ s_mode = "batch"
    /\ s_pc = "returned"
    /\ \E i \in 1..Len(s_state) : s_state[i] = "raised"
    /\ \E i \in 1..Len(s_state) :
          s_state[i] = "done" /\ ValidHits(s_results[i]) # {}

\* C7: every entry of the mapping returned by search_documents has a url and
\* a content, is stored under its own url, and the keys are exactly the urls
\* of the usable hits: a url returned by several queries is one entry.
C7_EntriesKeyedByOwnUrl ==
    s_mode = "batch" =>
        /\ \A u \in DOMAIN s_docs :
              /\ u # ""
              /\ s_docs[u].url = u
              /\ s_docs[u].content # ""
        /\ s_outcome = "docs" =>
              DOMAIN s_docs = {u \in {"u1", "u2"} : Returning(u) # {}}

\* C7 happens: two queries returned the same url, and hits without url or
\* content were returned too
C7_SharedUrlOneEntry ==
    /\ s_mode = "batch"
    /\ s_outcome = "docs"
    /\ Cardinality(Returning("u1")) = 2
    /\ \E i \in 1..Len(s_results) :
          s_results[i] = <<HitB, HitNoUrl, HitNoContent, HitA>>
    /\ DOMAIN s_docs = {"u1"}

\* C8: the entry kept for a url is the hit of the latest query, in the order
\* of the queries argument, that returned the url, whichever request
\* completed last.
C8_LatestQueryWins ==
    (s_mode = "batch" /\ s_outcome = "docs") =>
        \A u \in DOMAIN s_docs :
            LET i   == Greatest(Returning(u))
                r   == s_results[i]
                hit == r[Greatest({j \in ValidHits(r) : r[j].url = u})]
            IN  /\ s_docs[u].content = hit.content
                /\ s_docs[u].score = hit.score
                /\ s_docs[u].query = s_queries[i]

\* C8 happens: the second query's request completed before the first one's,
\* both returned u1, and the second query's hit is the one kept
C8_EarlierCompletionOfLaterQuery ==
    /\ s_mode = "batch"
    /\ s_outcome = "docs"
    /\ Len(s_queries) = 2
    /\ s_queries[1] # s_queries[2]
    /\ s_last = 1
    /\ s_results = << <<HitA>>, <<HitB>> >>
    /\ s_docs["u1"].content = "c2"
    /\ s_docs["u1"].query = s_queries[2]

\* C9: no provider request is issued for a query of fewer than 3 words, on
\* the batch path or on the single-query path.
C9_NoRequestForShortQuery ==
    \A i \in 1..Len(s_requests) : WordCount(s_requests[i].query) >= MinWords

\* a researcher of the news (financial) category: its role tag is one that
\* the class treats as news (financial), in its fallback list or in its search
IsNewsResearcher(t) == FallbackCategory(t) = "news" \/ SearchTopic(t) = "news"

IsFinancialResearcher(t) ==
    FallbackCategory(t) = "financial" \/ SearchTopic(t) = "finance"

\* C10: the requests of a news researcher carry topic news, those of a
\* financial researcher topic finance, those of the other researchers none.
C10_TopicFollowsCategory ==
    \A i \in 1..Len(s_requests) :
        s_requests[i].topic =
            CASE IsNewsResearcher(analyst_type)      -> "news"
              [] IsFinancialResearcher(analyst_type) -> "finance"
              [] OTHER                               -> "none"

----------------------------------------------------------------------------
(* Properties of create_briefings *)

\* the task of category c is inside "async with briefing_semaphore"
Admitted(c) ==
    b_task[c] \in {"holding", "start_sending", "ready", "requesting",
                   "complete_sending", "writing"}

\* the synthesis request of category c has been issued and has not ended
InFlight(c) == b_task[c] = "requesting"

BriefReturned == b_pc = "returned"

\* C11: during create_briefings at most 2 category tasks at a time hold the
\* admission gate or have a synthesis request in flight
C11_AtMostTwoAdmitted ==
    Cardinality({c \in CategoryNames : Admitted(c) \/ InFlight(c)}) <= 2

\* C11 witness: all four categories have curated input, two tasks hold the
\* gate, one of them with its request in flight, and the other two wait
C11_TwoAdmittedTwoWaiting ==
    /\ \A c \in CategoryNames : curated[c]
    /\ Cardinality({c \in CategoryNames : Admitted(c)}) = 2
    /\ Cardinality({c \in CategoryNames : b_task[c] = "waiting"}) = 2
    /\ \E c \in CategoryNames : InFlight(c)

\* the setup loop of create_briefings has run
SetupDone ==
    b_pc \in {"gathering", "returned"} \/ \E c \in CategoryNames : b_task[c] # "none"

RequestFailed(c) == b_fate[c] \in {"raised", "empty"}

\* C13: once the synthesis request of a category has raised or returned empty
\* text, the slot that category writes is the empty string, every category
\* that finished has in its slot the content of its own result, and
\* create_briefings does not raise
C13_RequestFailureAbsorbed ==
    (\E c \in CategoryNames : RequestFailed(c)) =>
        /\ \A c \in CategoryNames :
              (RequestFailed(c) /\ b_task[c] = "done") =>
                  state_slots[BriefingKey(c)] = <<>>
        /\ \A d \in CategoryNames :
              b_task[d] = "done" => state_slots[BriefingKey(d)] = b_result[d]
        /\ b_pc # "raised"

\* the briefing slot of each category
OwnSlot ==
    [c \in CategoryNames |->
        CASE c = "financial" -> "financial_briefing"
          [] c = "news" -> "news_briefing"
          [] c = "industry" -> "industry_briefing"
          [] c = "company" -> "company_briefing"]

WritesOf(k) == {i \in DOMAIN b_writes : b_writes[i].key = k}

C15_MapMatchesSlots ==
    BriefReturned =>
        /\ "briefings" \in state_has
        /\ DOMAIN state_briefings = {c \in CategoryNames : b_result[c] # <<>>}
        /\ \A c \in DOMAIN state_briefings :
              /\ state_briefings[c] = state_slots[OwnSlot[c]]
              /\ state_briefings[c] # <<>>
        /\ \A c \in CategoryNames :
              (~curated[c] \/ RequestFailed(c)) =>
                  /\ c \notin DOMAIN state_briefings
                  /\ state_slots[OwnSlot[c]] = <<>>
        /\ \A c \in CategoryNames \ DOMAIN state_briefings :
              state_slots[OwnSlot[c]] = <<>>

\* C15 witness: create_briefings has returned with the company briefing in
\* the map, beside a category whose request raised and one without input
C15_OneBriefingOneFailureOneEmpty ==
    /\ BriefReturned
    /\ DOMAIN state_briefings = {"company"}
    /\ state_briefings["company"] = <<"company", "briefing">>
    /\ b_fate["news"] = "raised"
    /\ ~curated["financial"]

----------------------------------------------------------------------------
(* Properties of the report compiler *)

EditDone == e_pc = "done"

NoBriefing == \A k \in BriefingKeys : state_slots[k] = <<>>

ReportWritten == "report" \in state_has

\* C16: when no category has a non-empty briefing the compiler issues no
\* completion request, does not raise, and ends with a report in the
\* state's report field
C16_NoBriefingsPlaceholderReport ==
    (EditDone /\ NoBriefing) =>
        /\ e_requests = <<>>
        /\ e_outcome = "returned"
        /\ ReportWritten
        /\ state_report # <<>>

\* C17: whenever at least one category briefing is non-empty the compiler
\* ends with a non-empty report in the state's report field
C17_SomeBriefingGivesReport ==
    (EditDone /\ ~NoBriefing) => (ReportWritten /\ state_report # <<>>)

\* the events a compile can log, by position
StageEvents ==
    << {"collected"}, {"compile_issued"}, {"compile_returned", "compile_raised"},
       {"cleanup_issued"}, {"cleanup_returned", "cleanup_raised"},
       {"report_written"} >>

Logged(i, event) == Len(e_log) >= i /\ e_log[i] = event

\* a completion request has been issued and has neither returned nor raised
CompileInFlight == e_pc = "compiling"

CleanupInFlight == e_pc = "sweeping"

\* C18: the compile runs Collecting, InitialCompile, StreamedCleanup, Done
\* in this order: the cleanup request is issued only after the compile
\* request has returned or raised, each request is issued at most once, the
\* two are never in flight together, and the report is written only after
\* the cleanup has ended
C18_StagesInOrder ==
    /\ Len(e_log) <= Len(StageEvents)
    /\ \A i \in DOMAIN e_log : e_log[i] \in StageEvents[i]
    /\ e_requests = IF Len(e_log) >= 4 THEN <<"compile", "cleanup">>
                    ELSE IF Len(e_log) >= 2 THEN <<"compile">> ELSE <<>>
    /\ CompileInFlight => Len(e_log) = 2
    /\ CleanupInFlight => Len(e_log) = 4
    /\ ~(CompileInFlight /\ CleanupInFlight)
    /\ e_pc = "swept" => Len(e_log) = 5
    /\ ReportWritten <=> Len(e_log) = 6
    /\ ~ReportWritten => state_report = <<>>

\* C18 witness: a compile that went through every stage and wrote its report
C18_AllStagesPassed ==
    /\ EditDone
    /\ e_log = <<"collected", "compile_issued", "compile_returned",
                 "cleanup_issued", "cleanup_returned", "report_written">>
    /\ e_requests = <<"compile", "cleanup">>
    /\ state_report # <<>>

\* the non-empty briefings in the order company, industry, financial, news,
\* with a blank line between them
RawConcatenation ==
    Join(SelectSeq(<< state_slots["company_briefing"],
                      state_slots["industry_briefing"],
                      state_slots["financial_briefing"],
                      state_slots["news_briefing"] >>,
                   LAMBDA t : t # <<>>))

\* C19: once the compile request has raised, the compiled text is the raw
\* concatenation of the non-empty briefings in the order company, industry,
\* financial, news, and the cleanup request is issued with it
C19_FallbackIsConcatenation ==
    Logged(3, "compile_raised") =>
        /\ edited_report = RawConcatenation
        /\ Logged(4, "cleanup_issued")

\* C20: once the cleanup stage has raised, at request time or in the middle
\* of the stream, the text handed back is the trimmed pre-cleanup text, and
\* the compile ends with exactly that text as the report in the state
C20_CleanupFailureKeepsCompiledText ==
    Logged(5, "cleanup_raised") =>
        /\ final_report = Strip(edited_report)
        /\ e_pc = "swept" => ~ReportWritten
        /\ e_pc # "swept" => /\ ReportWritten
                             /\ state_report = Strip(edited_report)
                             /\ editor_report = state_report

\* C20 witness: the cleanup raised after a chunk had been broadcast, and the
\* report is the compiled text
C20_RaisedAfterBroadcast ==
    /\ EditDone
    /\ Logged(5, "cleanup_raised")
    /\ e_chunks # <<>>
    /\ accumulated_text # <<>>
    /\ state_report = Strip(edited_report)
    /\ state_report # Strip(accumulated_text)

\* C21: a report in the state is the trimmed, non-empty final text, held
\* alike by state['report'] and state['editor']['report']; it is written
\* before the "editor_complete" notification is sent, the notification
\* carries exactly this text, and none is sent without a written report
C21_ReportMirroredAndAnnounced ==
    /\ ReportWritten =>
          /\ state_report = final_report
          /\ state_report = Strip(state_report)
          /\ state_report # <<>>
          /\ editor_report = state_report
    /\ e_pc = "announcing" => (ReportWritten /\ e_complete = <<>>)
    /\ e_complete # <<>> => (ReportWritten /\ e_complete = << state_report >>)
    /\ (EditDone /\ Len(e_log) >= 5 /\ Strip(final_report) # <<>>) =>
          ReportWritten

\* C21 witness: the compile is done, the report is in both places and the
\* completion notification has carried a cleaned-up text
C21_ReportAnnounced ==
    /\ EditDone
    /\ Logged(5, "cleanup_returned")
    /\ state_report # <<>>
    /\ editor_report = state_report
    /\ e_complete = << state_report >>
    /\ state_report # edited_report

\* C24: an attempt whose stream ends with no finalized query is a failed
\* attempt: a retry follows if attempts remain, otherwise the call returns
\* the fallback list; and no call returns an empty list of queries
C24_EmptyStreamIsFailedAttempt ==
    /\ gen_outcome = "queries" => gen_result # <<>>
    /\ empty_stream =>
          /\ gen_pc \in {"failed", "sleeping", "returned"}
          /\ failures >= 1
          /\ gen_pc = "sleeping" => CanRetry(attempt)
          /\ gen_pc = "returned" =>
                /\ ~CanRetry(attempt)
                /\ gen_outcome = "fallback"
                /\ gen_result =
                      _fallback_queries(analyst_type, company, current_year)

\* C25: the call sleeps 2 seconds after its first failed attempt and 4 after
\* its second; each sleep lies between a failed attempt and the next one,
\* so that none follows the last failed attempt or a successful one
C25_BackoffDoubles ==
    /\ Len(slept) <= 2
    /\ \A i \in DOMAIN slept : slept[i] = 2 * (2 ^ (i - 1))
    /\ Len(slept) = IF gen_pc = "sleeping" THEN attempt + 1 ELSE attempt
    /\ gen_pc = "sleeping" => failures = attempt + 1
    /\ gen_outcome = "queries" => Len(slept) = failures
    /\ gen_outcome \in {"fallback", "raised"} => Len(slept) = failures - 1

\* C25 witness: three attempts failed, with sleeps of 2 and of 4 between
\* them and none after the third
C25_TwoSleepsThreeFailures ==
    /\ gen_outcome = "fallback"
    /\ failures = 3
    /\ slept = <<2, 4>>

\* the references sections in a text
ReferenceSections(t) == {i \in DOMAIN t : t[i] = "References"}

\* C23: when the state has curated references, the compiled text handed to
\* the cleanup request carries the references section exactly once, after a
\* compile request that returned and after one that raised alike
C23_ReferencesExactlyOnce ==
    (references /\ Logged(4, "cleanup_issued")) =>
        Cardinality(ReferenceSections(edited_report)) = 1

----------------------------------------------------------------------------
(* The broadcaster *)

\* C22: without a broadcaster or a job id no notification is made, and no
\* stage ends by raising to its caller, unless the sort of the documents of
\* a briefing has raised
C22_NoStageRaises ==
    /\ ~Notifying => last_status = ""
    /\ gen_outcome # "raised"
    /\ s_outcome # "raised"
    /\ b_pc = "raised" => \E c \in CategoryNames : b_fate[c] = "unsorted"
    /\ e_outcome # "raised"

----------------------------------------------------------------------------
(* The end of create_briefings *)

\* C33: create_briefings does not end by raising; when it has returned, all
\* four briefing slots are written, no task is left at the semaphore and
\* its permits are free again; the permits in use never exceed 2
C33_ReturnsWithPermitsFree ==
    /\ b_pc # "raised"
    /\ b_pc = "returned" =>
          /\ BriefingKeys \subseteq state_has
          /\ \A c \in CategoryNames : b_task[c] \in {"none", "done"}
          /\ (\E c \in CategoryNames : HasTask(c)) =>
                 briefing_semaphore = SemaphoreValue
    /\ briefing_semaphore \in 0..SemaphoreValue

----------------------------------------------------------------------------
(* The notifications of a briefing *)

\* the "briefing_complete" notification of the category raised
CompleteLost(c) == b_fate[c] = "text" /\ b_result[c] = <<>>

\* C28: with a broadcaster, the start notification of a category is sent
\* before its synthesis request, and once the request has finished and its
\* task goes on, the complete notification of the category has followed
\* the start notification, unless the broadcaster raised on it
C28_StartFollowedByComplete ==
    Notifying =>
        \A c \in CategoryNames :
            /\ b_requests[c] > 0 => b_sent[c] # <<>> /\ Head(b_sent[c]) = "briefing_start"
            /\ (b_task[c] \in {"writing", "done"} /\ ~CompleteLost(c)) =>
                   b_sent[c] = <<"briefing_start", "briefing_complete">>

----------------------------------------------------------------------------
(* The chunks of the cleanup stream *)

\* the payloads of the chunks, one after another
RECURSIVE Payloads(_)
Payloads(chunks) ==
    IF chunks = <<>> THEN <<>> ELSE Head(chunks) \o Payloads(Tail(chunks))

\* C29: with a broadcaster, once the cleanup stream has ended without an
\* exception, the payloads of the report chunks make up the accumulated
\* text, and every chunk before the last was due when it was sent
C29_ChunksCarryFullText ==
    (Notifying /\ Logged(5, "cleanup_returned")) =>
        /\ Payloads(e_chunks) = accumulated_text
        /\ \A i \in 1..(Len(e_chunks) - 1) : FlushDue(e_chunks[i])

----------------------------------------------------------------------------
(* Two jobs on one Editor *)

\* C30: the compile request, the cleanup request and the completion
\* notification of a job carry the identity of that job
C30_OwnIdentityOnly ==
    \A j \in Jobs :
        /\ j_compile[j] \in {NoContext, JobContext(j)}
        /\ j_cleanup[j] \in {NoContext, JobContext(j)}
        /\ j_complete[j] \in {"", JobContext(j).company}

----------------------------------------------------------------------------
(* The body of the synthesis prompt *)

\* the score a document is ranked by, a missing or non-numeric one being 0
ScoreOrZero(doc) == IF Numeric(doc.score) THEN ScoreKey(doc) ELSE 0

\* C26: the sort of the documents never raises, and the documents enter
\* the prompt in descending order of their score, a missing or non-numeric
\* score counting as 0
C26_ScoreOrderNeverFails ==
    /\ p_pc # "raised"
    /\ p_pc \in {"selecting", "built"} =>
          /\ Len(sorted_items) = Len(doc_items)
          /\ {sorted_items[i] : i \in DOMAIN sorted_items} =
                 {doc_items[i] : i \in DOMAIN doc_items}
          /\ \A i \in DOMAIN sorted_items, j \in DOMAIN sorted_items :
                 i < j => ScoreOrZero(sorted_items[i]) >= ScoreOrZero(sorted_items[j])

\* the length of the first n entries in score order
RECURSIVE BodyLength(_)
BodyLength(n) ==
    IF n = 0 THEN 0 ELSE BodyLength(n - 1) + EntryLength(sorted_items[n])

\* the entries in the body are the whole entries of the first documents in
\* score order
WholeEntries ==
    /\ Len(doc_texts) <= Len(sorted_items)
    /\ \A k \in DOMAIN doc_texts :
          /\ doc_texts[k].url = sorted_items[k].url
          /\ doc_texts[k].length = EntryLength(sorted_items[k])
    /\ total_length = BodyLength(Len(doc_texts))

\* C27: once the body is built, its entries are whole entries of a prefix of
\* the score order, and a document is in the body exactly when the entries
\* up to and including its own have a total length strictly below 120000
C27_PrefixStrictlyUnderLimit ==
    p_pc = "built" =>
        /\ WholeEntries
        /\ \A k \in DOMAIN sorted_items :
              k <= Len(doc_texts) <=> \A m \in 1..k : BodyLength(m) < 120000

\* C27 as stated: a document is in the body exactly when the entries up to
\* and including its own have a total length that does not exceed 120000
C27_PrefixUpToLimit ==
    p_pc = "built" =>
        /\ WholeEntries
        /\ \A k \in DOMAIN sorted_items :
              k <= Len(doc_texts) <=> \A m \in 1..k : BodyLength(m) <= 120000

\* C27 witness: the second of three documents would bring the body to
\* 120000 and is left out, and so is the smaller third one
C27_SecondReachesLimit ==
    /\ p_pc = "built"
    /\ Len(sorted_items) = 3
    /\ Len(doc_texts) = 1
    /\ BodyLength(2) = 120000
    /\ EntryLength(sorted_items[3]) < EntryLength(sorted_items[2])
    /\ total_length + EntryLength(sorted_items[3]) < 120000

----------------------------------------------------------------------------
(* The role tag of a researcher *)

\* C31: the searches of a researcher whose tag selects the news (financial)
\* fallback list carry the topic news (finance)
C31_FallbackTagIsTopicTag ==
    \A i \in 1..Len(s_requests) :
        /\ FallbackCategory(analyst_type) = "news" =>
              s_requests[i].topic = "news"
        /\ FallbackCategory(analyst_type) = "financial" =>
              s_requests[i].topic = "finance"

----------------------------------------------------------------------------
(* The attempts of generate_queries *)

\* C32: the list of an attempt starts empty, whatever the attempts before
\* it had finalized; the queries returned are the first 4 of the lines of the
\* stream of the returning attempt alone, and the fallback list is the fixed
\* list of the researcher, with nothing of a failed attempt in it
C32_ResultFromOneAttempt ==
    /\ (gen_pc = "streaming" /\ text = <<>>) => queries = <<>>
    /\ gen_outcome = "queries" =>
          /\ gen_result = queries
          /\ queries = Take(TrimmedLines(text, LineCount(text)), MaxReturned)
    /\ gen_outcome = "fallback" =>
          gen_result = _fallback_queries(analyst_type, company, current_year)

\* C32 witness: an attempt returns its queries after an earlier attempt of
\* the call had finalized a query and then failed
C32_ReturnsAfterDiscarding ==
    /\ gen_outcome = "queries"
    /\ discarded
    /\ failures >= 1

====
